---- MODULE Spec2Model ----
(***************************************************************************)
(* The console race timer (src/console/race_timing_console.py): the two    *)
(* flags and the start time that make up the race clock, the directory of  *)
(* race databases under data/, and the functions that start and stop the   *)
(* race and record finishes.                                               *)
(*                                                                         *)
(* The functions are modelled as an API: a caller (main_menu, or any other *)
(* code that imports the module) may call any of them whenever control is  *)
(* with the caller.  start_race does not return before live_race_input     *)
(* does, so after a successful start control is inside the input loop      *)
(* (inLive) until the word exit is typed or input() raises.                *)
(*                                                                         *)
(* Text is a sequence of one-character strings, so that strip(), lower()   *)
(* and int() are computed character by character.                          *)
(*                                                                         *)
(* The two reports of the console (show_individual_results and             *)
(* show_team_results) are applied to every stored database of a bounded    *)
(* size in ReportSpec, and calculate_team_scores of                        *)
(* race_timing_gui_tests.py to every bounded input in ScoreSpec.           *)
(*                                                                         *)
(* ThreadSpec runs record_result and a report from several callers at the  *)
(* same time, statement by statement; LoadSpec applies                     *)
(* load_runners_from_csv to every bounded CSV file.  GtkSpec is the GTK4   *)
(* program (gui-gtk4 v.95/gui/race_timing_gui.py), RfidSpec the RFID       *)
(* program (gui/gui/race-timer-rfid-gui.py), and WebSpec the two result    *)
(* pages of console/web/app.py.  AgeSpec applies group_by_age to bounded   *)
(* inputs, MenuSpec is the console with main_menu as its only caller, and  *)
(* DaySpec creates databases on a day that already has many.               *)
(***************************************************************************)
EXTENDS Integers, Sequences, FiniteSets, TLC

\* ------------------------------------------------------------------ bounds
\* The clock reads 0..MaxTime.
MaxTime == 1
\* At most MaxResults rows are ever inserted, over all databases.
MaxResults == 2
\* At most MaxDb race databases are created under data/.
MaxDb == 1
\* A calendar day lasts TicksPerDay clock ticks.
TicksPerDay == 1
\* The reports are run on databases of at most MaxRows results.
MaxRows == 8
\* In those databases the race is started again after every RestartAfter results.
RestartAfter == 4
\* calculate_team_scores is given places 1..MaxPlace.
MaxPlace == 8
\* A CSV file that is loaded into a directory has at most MaxCsvRows rows.
MaxCsvRows == 3
\* group_by_age is given at most MaxAgeRows results.
MaxAgeRows == 2
\* The program is started on a day on which at most MaxDayDbs race databases
\* have been created before.
MaxDayDbs == 100

\* race_start_time before the first start.
None == -1

\* -------------------------------------------------------------------- text
Digits == {"0", "1", "2", "3", "4", "5", "6", "7", "8", "9"}

DigitVal(c) ==
    CASE c = "0" -> 0 [] c = "1" -> 1 [] c = "2" -> 2 [] c = "3" -> 3
      [] c = "4" -> 4 [] c = "5" -> 5 [] c = "6" -> 6 [] c = "7" -> 7
      [] c = "8" -> 8 [] c = "9" -> 9

IsSpace(c) == c \in {" ", "\t"}

\* str.strip(): leading and trailing whitespace removed.
RECURSIVE str_lstrip(_)
str_lstrip(s) ==
    IF s # <<>> /\ IsSpace(Head(s)) THEN str_lstrip(Tail(s)) ELSE s

RECURSIVE str_rstrip(_)
str_rstrip(s) ==
    IF s # <<>> /\ IsSpace(s[Len(s)])
    THEN str_rstrip(SubSeq(s, 1, Len(s) - 1))
    ELSE s

str_strip(s) == str_rstrip(str_lstrip(s))

\* str.lower(), on the letters the inputs use.
LowerChar(c) ==
    CASE c = "E" -> "e" [] c = "X" -> "x" [] c = "I" -> "i" [] c = "T" -> "t"
      [] c = "Q" -> "q" [] c = "U" -> "u" [] c = "A" -> "a" [] c = "B" -> "b"
      [] OTHER -> c

str_lower(s) == [i \in 1..Len(s) |-> LowerChar(s[i])]

\* The part of a numeral after whitespace and an optional sign are removed.
int_body(s) ==
    LET t == str_strip(s)
    IN  IF t # <<>> /\ Head(t) \in {"+", "-"} THEN Tail(t) ELSE t

\* int(s) returns a value (no ValueError): surrounding whitespace, an optional
\* sign, then digits, with single underscores allowed between digits.
int_ok(s) ==
    LET b == int_body(s)
    IN  /\ b # <<>>
        /\ b[1] \in Digits
        /\ b[Len(b)] \in Digits
        /\ \A i \in 1..Len(b) : b[i] \in Digits \cup {"_"}
        /\ \A i \in 1..(Len(b) - 1) : ~(b[i] = "_" /\ b[i + 1] = "_")

RECURSIVE digits_value(_)
digits_value(b) ==
    IF b = <<>> THEN 0
    ELSE IF b[Len(b)] = "_" THEN digits_value(SubSeq(b, 1, Len(b) - 1))
    ELSE digits_value(SubSeq(b, 1, Len(b) - 1)) * 10 + DigitVal(b[Len(b)])

int_value(s) ==
    LET t == str_strip(s)
        v == digits_value(int_body(s))
    IN  IF t # <<>> /\ Head(t) = "-" THEN 0 - v ELSE v

\* ------------------------------------------------------------------ inputs
ExitWord == <<"e", "x", "i", "t">>

\* Lines typed at the live prompt.
RawInputs ==
    { <<>>, <<" ">>, <<"7">>, <<" ", "7", " ">>, <<"7", "a">>,
      <<" ", "E", "x", "i", "t">>, <<"q", "u", "i", "t">> }

\* Arguments record_result is called with: its call site passes the stripped
\* line (input("> ").strip()).
BibArgs == {str_strip(r) : r \in RawInputs}

\* CSV files under data/: header bib,name,team,rfid, then these rows.
CsvFiles ==
    [ runners |-> << [bib |-> <<"7">>, name |-> "Ann", team |-> "A", rfid |-> "t1"],
                     [bib |-> <<"7">>, name |-> "Bob", team |-> "B", rfid |-> "t2"] >> ]

CsvNames == {"runners", "missing"}

\* A name under data/ that is no file.
MissingDb == <<0, 0>>

\* ------------------------------------------------------------------- state
VARIABLES
    DB_FILENAME,      \* <<>> for "", else <<date, seq>> of data/<date>-<seq>-race.db
    data,             \* the race databases under data/: file -> its two tables
    race_started,
    race_stopped,
    race_start_time,
    now,              \* what datetime.datetime.now() returns
    inLive,           \* control is inside live_race_input, waiting at input()
    call,             \* the call last made: its function and argument
    out,              \* the last line that call printed
    calls,            \* per file: record calls made while running with a numeral or ""
    tie_order,        \* the order in which SQLite returns rows with equal sort keys
    report,           \* what the last report printed, or the last scoring returned
    results_data,     \* the argument of calculate_team_scores
    csv_files,        \* the CSV files under data/: name -> rows
    threads,          \* callers running the console's functions at the same time
    gtk,              \* the GTK4 program: its runners table and timing window
    rfid              \* the RFID program: start_time, unassigned_times, results

vars == <<DB_FILENAME, data, race_started, race_stopped, race_start_time,
          now, inLive, call, out, calls, tie_order, report, results_data,
          csv_files, threads, gtk, rfid>>

\* What the reports read and write besides the databases.
reportVars == <<tie_order, report, results_data>>

\* What the console's functions of start, stop and record leave alone.
otherVars == <<reportVars, csv_files, threads, gtk, rfid>>

\* The state of the other programs, and of concurrent callers.
programVars == <<threads, gtk, rfid>>

clock == <<race_started, race_stopped, race_start_time>>

\* strftime('%Y%m%d') / strftime('%Y-%m-%d') of an instant.
DateOf(t) == t \div TicksPerDay

SetMax(S) == CHOOSE x \in S : \A y \in S : y <= x

\* The tables init_db creates.
EmptyDb == [runners |-> {}, results |-> <<>>, autoinc |-> 0]

TotalResults == LET RECURSIVE Sum(_)
                    Sum(F) == IF F = {} THEN 0
                              ELSE LET f == CHOOSE x \in F : TRUE
                                   IN  Len(data[f].results) + Sum(F \ {f})
                IN  Sum(DOMAIN data)

Running == race_started /\ ~race_stopped

Init ==
    /\ DB_FILENAME = <<>>
    /\ data = <<>>
    /\ race_started = FALSE
    /\ race_stopped = FALSE
    /\ race_start_time = None
    /\ now = 0
    /\ inLive = FALSE
    /\ call = [op |-> "none", arg |-> <<>>]
    /\ out = "none"
    /\ calls = <<>>
    /\ tie_order = "rowid"
    /\ report = <<>>
    /\ results_data = <<>>
    /\ csv_files = CsvFiles
    /\ threads = <<>>
    /\ gtk = <<>>
    /\ rfid = <<>>

\* --------------------------------------------------------------- functions
\* glob "data/{today}-??-race.db": today's files whose sequence has two characters.
get_next_db_filename ==
    LET today == DateOf(now)
        seq_nums == {f[2] : f \in {g \in DOMAIN data : g[1] = today /\ g[2] < 100}}
        next_seq == IF seq_nums # {} THEN SetMax(seq_nums) + 1 ELSE 1
    IN  <<today, next_seq>>

\* sqlite3.connect creates the file; CREATE TABLE IF NOT EXISTS keeps a table that exists.
WithTables(d, f) ==
    [g \in DOMAIN d \cup {f} |-> IF g \in DOMAIN d THEN d[g] ELSE EmptyDb]

WithCount(c, f) ==
    [g \in DOMAIN c \cup {f} |-> IF g \in DOMAIN c THEN c[g] ELSE 0]

init_db(new_db) ==
    LET fname == IF new_db THEN get_next_db_filename ELSE DB_FILENAME
    IN  /\ DB_FILENAME' = fname
        /\ data' = WithTables(data, fname)
        /\ calls' = WithCount(calls, fname)
        /\ out' = IF new_db THEN "NewDatabase" ELSE out

load_existing_db(filename) ==
    IF filename \in DOMAIN data
    THEN /\ DB_FILENAME' = filename
         /\ data' = WithTables(data, filename)
         /\ calls' = WithCount(calls, filename)
         /\ out' = "Loaded"
    ELSE /\ out' = "FileDoesNotExist"
         /\ UNCHANGED <<DB_FILENAME, data, calls>>

\* INSERT OR REPLACE INTO runners, bib being the INTEGER PRIMARY KEY.
Upsert_ignore(runners, row) ==
    LET b == int_value(row.bib)
    IN  IF \E r \in runners : r.bib = b THEN runners
        ELSE runners
               \cup {[bib |-> b, name |-> row.name, team |-> row.team, rfid |-> row.rfid]}

Upsert(runners, row) ==
    LET b == int_value(row.bib)
    IN  {r \in runners : r.bib # b}
          \cup {[bib |-> b, name |-> row.name, team |-> row.team, rfid |-> row.rfid]}

RECURSIVE UpsertAll(_, _)
UpsertAll(runners, rows) ==
    IF rows = <<>> THEN runners
    ELSE UpsertAll(Upsert(runners, Head(rows)), Tail(rows))

load_runners_from_csv(csv_file) ==
    IF DB_FILENAME = <<>>
    THEN out' = "NoDatabase" /\ UNCHANGED data
    ELSE IF csv_file \notin DOMAIN csv_files
    THEN out' = "FileNotFound" /\ UNCHANGED data
    ELSE /\ data' = [data EXCEPT ![DB_FILENAME].runners =
                        UpsertAll(@, csv_files[csv_file])]
         /\ out' = "LoadedRunners"

stop_race_unguarded ==
    /\ race_stopped' = TRUE
    /\ race_started' = FALSE
    /\ out' = "Stopped"
    /\ UNCHANGED race_start_time

stop_race_prints_only ==
    IF ~race_started
    THEN out' = "NotStarted" /\ UNCHANGED clock
    ELSE out' = "Stopped" /\ UNCHANGED clock

stop_race_keeps_started ==
    IF ~race_started
    THEN out' = "NotStarted" /\ UNCHANGED clock
    ELSE /\ race_stopped' = TRUE
         /\ UNCHANGED <<race_started, race_start_time>>
         /\ out' = "Stopped"

stop_race ==
    IF ~race_started
    THEN out' = "NotStarted" /\ UNCHANGED clock
    ELSE /\ race_stopped' = TRUE
         /\ race_started' = FALSE
         /\ out' = "Stopped"
         /\ UNCHANGED race_start_time

\* The row record_result inserts: AUTOINCREMENT id, bib, elapsed seconds, date.
NewRow_no_id(db, value) ==
    [id |-> 0,
     bib |-> value,
     finish_time |-> now - race_start_time,
     race_date |-> DateOf(race_start_time)]

NewRow_reversed(db, value) ==
    [id |-> db.autoinc + 1,
     bib |-> value,
     finish_time |-> race_start_time - now,
     race_date |-> DateOf(race_start_time)]

NewRow(db, value) ==
    [id |-> db.autoinc + 1,
     bib |-> value,
     finish_time |-> now - race_start_time,
     race_date |-> DateOf(race_start_time)]

Insert(db, value) ==
    [db EXCEPT !.results = Append(@, NewRow(db, value)),
               !.autoinc = @ + 1]

\* Default bib to 0 if unknown, else int(bib).
bib_value_checked(bib) ==
    IF bib = <<>> THEN 0
    ELSE IF int_value(bib) \in {r.bib : r \in data[DB_FILENAME].runners}
    THEN int_value(bib)
    ELSE 0

bib_value(bib) == IF bib = <<>> THEN 0 ELSE int_value(bib)

\* The INSERT, the commit, and the beep: playsound('beep.mp3') plays or
\* raises, and the except clause prints.
store_result_dedup(value) ==
    /\ data' = IF \E i \in 1..Len(data[DB_FILENAME].results) :
                     data[DB_FILENAME].results[i].bib = value
               THEN data
               ELSE [data EXCEPT ![DB_FILENAME] = Insert(@, value)]
    /\ out' \in {"Result", "SoundFailed"}

store_result_sound_first(value) ==
    \/ out' = "Result" /\ data' = [data EXCEPT ![DB_FILENAME] = Insert(@, value)]
    \/ out' = "SoundFailed" /\ UNCHANGED data

store_result(value) ==
    /\ data' = [data EXCEPT ![DB_FILENAME] = Insert(@, value)]
    /\ out' \in {"Result", "SoundFailed"}

\* record_result past its guard.
record_active_placeholder(bib) ==
    store_result(IF bib = <<>> \/ ~int_ok(bib) THEN 0 ELSE int_value(bib))

record_active(bib) ==
    IF bib # <<>> /\ ~int_ok(bib)
    THEN out' = "InvalidBib" /\ UNCHANGED data
    ELSE store_result(bib_value(bib))

\* History: the record calls made while running with a numeral or "".
count_call(bib) ==
    calls' = IF race_started /\ ~race_stopped /\ (bib = <<>> \/ int_ok(bib))
             THEN [calls EXCEPT ![DB_FILENAME] = @ + 1]
             ELSE calls

record_result_after_first_start(bib) ==
    /\ count_call(bib)
    /\ IF race_start_time = None
       THEN out' = "RaceNotActive" /\ UNCHANGED data
       ELSE record_active(bib)

record_result(bib) ==
    /\ count_call(bib)
    /\ IF ~race_started \/ race_stopped
       THEN out' = "RaceNotActive" /\ UNCHANGED data
       ELSE record_active(bib)

start_race_once ==
    IF DB_FILENAME = <<>>
    THEN out' = "NoDatabase" /\ UNCHANGED <<clock, inLive>>
    ELSE IF race_started
    THEN out' = "AlreadyRunning" /\ UNCHANGED <<clock, inLive>>
    ELSE IF race_stopped
    THEN out' = "InvalidTransition" /\ UNCHANGED <<clock, inLive>>
    ELSE /\ race_started' = TRUE
         /\ race_stopped' = FALSE
         /\ race_start_time' = now
         /\ out' = "InputMode"
         /\ inLive' = TRUE

start_race_unguarded ==
    IF DB_FILENAME = <<>>
    THEN out' = "NoDatabase" /\ UNCHANGED <<clock, inLive>>
    ELSE /\ race_started' = TRUE
         /\ race_stopped' = FALSE
         /\ race_start_time' = now
         /\ out' = "InputMode"
         /\ inLive' = TRUE

\* start_race up to its call of live_race_input, whose loop condition then
\* holds: control waits at input().
start_race ==
    IF DB_FILENAME = <<>>
    THEN out' = "NoDatabase" /\ UNCHANGED <<clock, inLive>>
    ELSE IF race_started
    THEN out' = "AlreadyRunning" /\ UNCHANGED <<clock, inLive>>
    ELSE /\ race_started' = TRUE
         /\ race_stopped' = FALSE
         /\ race_start_time' = now
         /\ out' = "InputMode"
         /\ inLive' = TRUE

\* bib = input("> ").strip()
line_read_unstripped(raw) == raw

line_read(raw) == str_strip(raw)

\* ----------------------------------------------------------------- actions
\* The bound on inserted rows: a call that would insert one more is left out.
WithinBound(bib) ==
    \/ TotalResults < MaxResults
    \/ ~(race_started /\ ~race_stopped /\ (bib = <<>> \/ int_ok(bib)))

Tick ==
    /\ now < MaxTime
    /\ now' = now + 1
    /\ UNCHANGED <<DB_FILENAME, data, clock, inLive, call, out, calls>>
    /\ UNCHANGED otherVars

InitDbNew ==
    /\ ~inLive
    /\ Cardinality(DOMAIN data) < MaxDb
    /\ call' = [op |-> "init_db", arg |-> <<>>]
    /\ init_db(TRUE)
    /\ UNCHANGED <<clock, now, inLive>>
    /\ UNCHANGED otherVars

LoadExistingDb ==
    /\ ~inLive
    /\ \E filename \in DOMAIN data \cup {MissingDb} :
          /\ call' = [op |-> "load_existing_db", arg |-> <<>>]
          /\ load_existing_db(filename)
    /\ UNCHANGED <<clock, now, inLive>>
    /\ UNCHANGED otherVars

LoadRunnersFromCsv ==
    /\ ~inLive
    /\ \E csv_file \in CsvNames :
          /\ call' = [op |-> "load_runners_from_csv", arg |-> <<csv_file>>]
          /\ load_runners_from_csv(csv_file)
    /\ UNCHANGED <<DB_FILENAME, clock, now, inLive, calls>>
    /\ UNCHANGED otherVars

StartRace ==
    /\ ~inLive
    /\ call' = [op |-> "start_race", arg |-> <<>>]
    /\ start_race
    /\ UNCHANGED <<DB_FILENAME, data, now, calls>>
    /\ UNCHANGED otherVars

StopRace ==
    /\ ~inLive
    /\ call' = [op |-> "stop_race", arg |-> <<>>]
    /\ stop_race
    /\ UNCHANGED <<DB_FILENAME, data, now, inLive, calls>>
    /\ UNCHANGED otherVars

RecordResult ==
    /\ ~inLive
    /\ \E bib \in BibArgs :
          /\ WithinBound(bib)
          /\ call' = [op |-> "record_result", arg |-> bib]
          /\ record_result(bib)
    /\ UNCHANGED <<DB_FILENAME, clock, now, inLive>>
    /\ UNCHANGED otherVars

\* One turn of the loop of live_race_input: a line is read, stripped, and is
\* either the word exit or a bib for record_result.
LiveRaceInput ==
    /\ inLive
    /\ \E raw \in RawInputs :
          LET bib == line_read(raw)
          IN  /\ WithinBound(bib)
              /\ call' = [op |-> "live_race_input", arg |-> raw]
              /\ IF str_lower(bib) = ExitWord
                 THEN /\ stop_race
                      /\ inLive' = FALSE
                      /\ UNCHANGED <<data, calls>>
                 ELSE /\ record_result(bib)
                      /\ inLive' = (race_started /\ ~race_stopped)
                      /\ UNCHANGED clock
    /\ UNCHANGED <<DB_FILENAME, now>>
    /\ UNCHANGED otherVars

\* input() raises (EOFError at end of input, KeyboardInterrupt): the loop and
\* start_race are left by the exception, the flags stay as they are.
LiveInputRaises ==
    /\ inLive
    /\ inLive' = FALSE
    /\ call' = [op |-> "input", arg |-> <<>>]
    /\ out' = "Exception"
    /\ UNCHANGED <<DB_FILENAME, data, clock, now, calls>>
    /\ UNCHANGED otherVars

Next ==
    \/ Tick
    \/ InitDbNew
    \/ LoadExistingDb
    \/ LoadRunnersFromCsv
    \/ StartRace
    \/ StopRace
    \/ RecordResult
    \/ LiveRaceInput
    \/ LiveInputRaises

Spec == Init /\ [][Next]_vars

\* ----------------------------------------------------------------- reports
\* The databases the reports are run on.  The directory is what loading the
\* CSV file leaves; a result is for the blank line (bib 0), for the runner of
\* the directory (7) or for a bib that is not in the directory (8).  Elapsed
\* times are whole seconds after the last start: start_race resets
\* race_start_time, so after a restart on the same database they begin again
\* and repeat those of the earlier race.
ResultBibs == {0, 7, 8}

Elapsed(i) == ((i - 1) % RestartAfter) + 1

StoredDb(bibs) ==
    [runners |-> UpsertAll({}, CsvFiles.runners),
     results |-> [i \in 1..Len(bibs) |->
                     [id |-> i, bib |-> bibs[i],
                      finish_time |-> Elapsed(i), race_date |-> 0]],
     autoinc |-> Len(bibs)]

BibLists == UNION {[1..n -> ResultBibs] : n \in 0..MaxRows}

\* ORDER BY results.finish_time ASC names no second key: SQLite leaves the
\* order of rows with equal finish_time unspecified.  The engine is
\* deterministic, so one database answers one query the same way every time.
TieOrders == {"rowid", "reverse_rowid"}

\* FROM results LEFT JOIN runners ON results.bib = runners.bib: every result,
\* with the runners of its bib (bib is the primary key of runners).
JoinRow(runners, result) ==
    [result |-> result, runners |-> {u \in runners : u.bib = result.bib}]

RECURSIVE InnerJoin(_, _)
InnerJoin(runners, results) ==
    IF results = <<>> THEN <<>>
    ELSE (IF JoinRow(runners, Head(results)).runners = {} THEN <<>>
          ELSE <<JoinRow(runners, Head(results))>>)
            \o InnerJoin(runners, Tail(results))

RECURSIVE LeftJoin(_, _)
LeftJoin(runners, results) ==
    IF results = <<>> THEN <<>>
    ELSE <<JoinRow(runners, Head(results))>> \o LeftJoin(runners, Tail(results))

\* COALESCE(runners.name, 'UNKNOWN'): the column is NULL on a result without runner.
COALESCE_absent(runners, column) ==
    IF runners = {} THEN "None" ELSE (CHOOSE u \in runners : TRUE)[column]

COALESCE(runners, column) ==
    IF runners = {} THEN "UNKNOWN" ELSE (CHOOSE u \in runners : TRUE)[column]

RowBefore(a, b) ==
    \/ a.result.finish_time < b.result.finish_time
    \/ /\ a.result.finish_time = b.result.finish_time
       /\ IF tie_order = "rowid" THEN a.result.id < b.result.id
                                 ELSE a.result.id > b.result.id

\* row put at its rank among rows already in order
Ranked(row, ordered) ==
    LET k == Cardinality({j \in 1..Len(ordered) : RowBefore(ordered[j], row)})
    IN  SubSeq(ordered, 1, k) \o <<row>> \o SubSeq(ordered, k + 1, Len(ordered))

RECURSIVE OrderByFinishTime(_)
OrderByFinishTime(rows) ==
    IF rows = <<>> THEN <<>>
    ELSE Ranked(Head(rows), OrderByFinishTime(Tail(rows)))

\* rows = c.fetchall() of either report: the two queries select their columns
\* from the same join in the same order.
fetchall ==
    OrderByFinishTime(LeftJoin(data[DB_FILENAME].runners, data[DB_FILENAME].results))

\* print(f"{i}. Place: {i} | Bib: .., Name: .., Team: .., Time: ..s")
IndividualLine(i, row) ==
    [place |-> i,
     bib |-> row.result.bib,
     name |-> COALESCE(row.runners, "name"),
     team |-> COALESCE(row.runners, "team"),
     time |-> row.result.finish_time]

show_individual_results_counting_on ==
    IF DB_FILENAME = <<>>
    THEN out' = "NoDatabase" /\ report' = <<>>
    ELSE /\ out' = "IndividualResults"
         /\ LET rows == fetchall
            IN  report' = [i \in 1..Len(rows) |-> IndividualLine(Len(report) + i, rows[i])]

show_individual_results ==
    IF DB_FILENAME = <<>>
    THEN out' = "NoDatabase" /\ report' = <<>>
    ELSE /\ out' = "IndividualResults"
         /\ LET rows == fetchall
            IN  report' = [i \in 1..Len(rows) |-> IndividualLine(i, rows[i])]

\* A dict keeps its keys in the order of their first insertion: a sequence
\* of [key, value] with distinct keys.
KeyIndex(dict, key) ==
    IF \E k \in 1..Len(dict) : dict[k].key = key
    THEN CHOOSE k \in 1..Len(dict) : dict[k].key = key
    ELSE 0

\* dict[key].append(item), after "if key not in dict: dict[key] = []".
AppendAt(dict, key, item) ==
    IF KeyIndex(dict, key) = 0
    THEN Append(dict, [key |-> key, value |-> <<item>>])
    ELSE [dict EXCEPT ![KeyIndex(dict, key)].value = Append(@, item)]

\* The loop over rows: place counts every row from 1, team_places[team]
\* collects the places of the rows of a team.
RECURSIVE team_places_from(_, _, _)
team_places_from(rows, place, team_places) ==
    IF rows = <<>> THEN team_places
    ELSE team_places_from(Tail(rows), place + 1,
             AppendAt(team_places, COALESCE(Head(rows).runners, "team"), place))

team_places == team_places_from(fetchall, 1, <<>>)

Min(a, b) == IF a <= b THEN a ELSE b

RECURSIVE sum(_)
sum(s) == IF s = <<>> THEN 0 ELSE Head(s) + sum(Tail(s))

\* places[:5] and places[5:7]
scorers_of(places) == SubSeq(places, 1, Min(5, Len(places)))

displacers_unbounded(places) ==
    IF Len(places) > 5 THEN SubSeq(places, 6, Len(places)) ELSE <<>>

displacers_of(places) ==
    IF Len(places) > 5 THEN SubSeq(places, 6, Min(7, Len(places))) ELSE <<>>

\* Team, Scorers -> Total, and Displacers when there are any.
TeamLine(entry) ==
    [team |-> entry.key,
     scorers |-> scorers_of(entry.value),
     total |-> sum(scorers_of(entry.value)),
     displacers |-> displacers_of(entry.value)]

show_team_results ==
    IF DB_FILENAME = <<>>
    THEN out' = "NoDatabase" /\ report' = <<>>
    ELSE /\ out' = "TeamResults"
         /\ LET teams == team_places
            IN  report' = [k \in 1..Len(teams) |-> TeamLine(teams[k])]

\* ---- the reports applied to every stored database
ReportInit ==
    /\ \/ \E bibs \in BibLists :
             DB_FILENAME = <<0, 1>> /\ data = (<<0, 1>> :> StoredDb(bibs))
       \/ DB_FILENAME = <<>> /\ data = <<>>
    /\ tie_order \in TieOrders
    /\ race_started = FALSE
    /\ race_stopped = FALSE
    /\ race_start_time = None
    /\ now = 0
    /\ inLive = FALSE
    /\ call = [op |-> "none", arg |-> <<>>]
    /\ out = "none"
    /\ calls = <<>>
    /\ report = <<>>
    /\ results_data = <<>>
    /\ csv_files = CsvFiles
    /\ threads = <<>>
    /\ gtk = <<>>
    /\ rfid = <<>>

ShowIndividualResults ==
    /\ call' = [op |-> "show_individual_results", arg |-> <<>>]
    /\ show_individual_results
    /\ UNCHANGED <<DB_FILENAME, data, clock, now, inLive, calls, tie_order, results_data>>
    /\ UNCHANGED <<csv_files, programVars>>

ShowTeamResults ==
    /\ call' = [op |-> "show_team_results", arg |-> <<>>]
    /\ show_team_results
    /\ UNCHANGED <<DB_FILENAME, data, clock, now, inLive, calls, tie_order, results_data>>
    /\ UNCHANGED <<csv_files, programVars>>

ReportNext ==
    \/ ShowIndividualResults
    \/ ShowTeamResults

ReportSpec == ReportInit /\ [][ReportNext]_vars

\* ------------------------------------------------- calculate_team_scores
\* results_data: (team, bib, name, finish_time, place) per runner.  name and
\* finish_time go where bib goes and decide nothing; a row here is team, bib
\* and place.  Two teams, each with some of the places (runners of different
\* teams may share a place), listed by place or the other way round.
ScoreTeams == {"A", "B"}

ScoreRow(team, place) ==
    [team |-> team, bib |-> IF team = "A" THEN place ELSE MaxPlace + place, place |-> place]

RECURSIVE RowsByPlace(_, _, _)
RowsByPlace(placesA, placesB, place) ==
    IF place > MaxPlace THEN <<>>
    ELSE (IF place \in placesA THEN <<ScoreRow("A", place)>> ELSE <<>>)
           \o (IF place \in placesB THEN <<ScoreRow("B", place)>> ELSE <<>>)
           \o RowsByPlace(placesA, placesB, place + 1)

Reversed(s) == [i \in 1..Len(s) |-> s[Len(s) + 1 - i]]

ScoreInput(placesA, placesB, reversed) ==
    IF reversed THEN Reversed(RowsByPlace(placesA, placesB, 1))
    ELSE RowsByPlace(placesA, placesB, 1)

\* float('inf'), the tie-break of a team without that finisher
inf == -1

\* teams.setdefault(team, []).append(...), in the order of results_data
RECURSIVE teams_from(_, _)
teams_from(rows, teams) ==
    IF rows = <<>> THEN teams
    ELSE teams_from(Tail(rows), AppendAt(teams, Head(rows).team, Head(rows)))

\* runners.sort(key=lambda x: x[0]): by place, equal places in list order
RECURSIVE sort_by_place(_)
sort_by_place(runners) ==
    IF runners = <<>> THEN <<>>
    ELSE LET rest == sort_by_place(SubSeq(runners, 1, Len(runners) - 1))
             last == runners[Len(runners)]
             k == Cardinality({j \in 1..Len(rest) : rest[j].place <= last.place})
         IN  SubSeq(rest, 1, k) \o <<last>> \o SubSeq(rest, k + 1, Len(rest))

RECURSIVE sum_places(_)
sum_places(runners) ==
    IF runners = <<>> THEN 0 ELSE Head(runners).place + sum_places(Tail(runners))

\* the tuple appended to scores for a team of five runners or more
ScoreEntry(team, sorted) ==
    LET displacers == SubSeq(sorted, 6, Min(7, Len(sorted)))
    IN  [team |-> team,
         score |-> sum_places(SubSeq(sorted, 1, 5)),
         top5 |-> SubSeq(sorted, 1, 5),
         displacers |-> displacers,
         tiebreak1 |-> IF Len(displacers) > 0 THEN displacers[1].place ELSE inf,
         tiebreak2 |-> IF Len(displacers) > 1 THEN displacers[2].place ELSE inf]

RECURSIVE scores_from_over_five(_)
scores_from_over_five(teams) ==
    IF teams = <<>> THEN <<>>
    ELSE (IF Len(Head(teams).value) > 5
          THEN <<ScoreEntry(Head(teams).key, sort_by_place(Head(teams).value))>>
          ELSE <<>>) \o scores_from_over_five(Tail(teams))

RECURSIVE scores_from(_)
scores_from(teams) ==
    IF teams = <<>> THEN <<>>
    ELSE (IF Len(Head(teams).value) >= 5
          THEN <<ScoreEntry(Head(teams).key, sort_by_place(Head(teams).value))>>
          ELSE <<>>) \o scores_from(Tail(teams))

\* a < b for a place or inf
Less(a, b) == a # inf /\ (b = inf \/ a < b)

\* key (score, tiebreak1, tiebreak2) of a before that of b
KeyBefore_score_only(a, b) == a.score < b.score

KeyBefore(a, b) ==
    \/ a.score < b.score
    \/ a.score = b.score /\ Less(a.tiebreak1, b.tiebreak1)
    \/ a.score = b.score /\ a.tiebreak1 = b.tiebreak1 /\ Less(a.tiebreak2, b.tiebreak2)

\* scores.sort(key=lambda x: (x[1], x[4], x[5])): equal keys keep their order
RECURSIVE sort_scores(_)
sort_scores(scores) ==
    IF scores = <<>> THEN <<>>
    ELSE LET rest == sort_scores(SubSeq(scores, 1, Len(scores) - 1))
             last == scores[Len(scores)]
             k == Cardinality({j \in 1..Len(rest) : ~KeyBefore(last, rest[j])})
         IN  SubSeq(rest, 1, k) \o <<last>> \o SubSeq(rest, k + 1, Len(rest))

calculate_team_scores(data_in) == sort_scores(scores_from(teams_from(data_in, <<>>)))

ScoreInit ==
    /\ \E placesA \in SUBSET (1..MaxPlace), placesB \in SUBSET (1..MaxPlace),
          reversed \in BOOLEAN :
          results_data = ScoreInput(placesA, placesB, reversed)
    /\ report = <<>>
    /\ tie_order = "rowid"
    /\ DB_FILENAME = <<>>
    /\ data = <<>>
    /\ race_started = FALSE
    /\ race_stopped = FALSE
    /\ race_start_time = None
    /\ now = 0
    /\ inLive = FALSE
    /\ call = [op |-> "none", arg |-> <<>>]
    /\ out = "none"
    /\ calls = <<>>
    /\ csv_files = CsvFiles
    /\ threads = <<>>
    /\ gtk = <<>>
    /\ rfid = <<>>

CalculateTeamScores ==
    /\ call' = [op |-> "calculate_team_scores", arg |-> <<>>]
    /\ report' = calculate_team_scores(results_data)
    /\ UNCHANGED <<DB_FILENAME, data, clock, now, inLive, out, calls, tie_order, results_data>>
    /\ UNCHANGED <<csv_files, programVars>>

ScoreNext == CalculateTeamScores

ScoreSpec == ScoreInit /\ [][ScoreNext]_vars

\* ------------------------------------------------------ concurrent callers
\* Two input sources call record_result and a third caller runs a report
\* while the race is running, each on a connection of its own.  A step is
\* what one caller does between two points where SQLite may make it wait:
\* the INSERT takes the write lock of the database file (a second writer
\* waits for it), commit publishes the row and releases the lock, and a
\* SELECT reads the committed rows.
Writers == {"keyboard", "sensor"}

Reporter == "reporter"

ThreadBibs == {<<>>, <<"7">>, <<"7", "a">>}

NoRow == [id |-> 0, bib |-> 0, finish_time |-> 0, race_date |-> 0]

\* conn is the connection that the caller's present or last call of
\* record_result opened: "none" when the call opened none.
IdleThread ==
    [pc |-> "idle", value |-> 0, elapsed |-> 0, row |-> NoRow, rows |-> <<>>,
     conn |-> "none"]

\* What becomes of a connection that goes out of scope without close(): the
\* language leaves it to the garbage collector, which closes it at once
\* (reference counting) or at some later time.
Unreferenced == {"open", "closed"}

\* Rows inserted and not yet committed.
Uncommitted == {t \in Writers : threads[t].pc = "commit"}

\* record_result up to the INSERT: the guard, the connection, the clock
\* reading and the bib.
record_enter(t, bib) ==
    IF ~race_started \/ race_stopped
    THEN out' = "RaceNotActive" /\ threads' = [threads EXCEPT ![t].conn = "none"]
    ELSE IF bib # <<>> /\ ~int_ok(bib)
    THEN /\ out' = "InvalidBib"
         /\ \E conn \in Unreferenced : threads' = [threads EXCEPT ![t].conn = conn]
    ELSE /\ threads' = [threads EXCEPT ![t] =
                [@ EXCEPT !.pc = "insert",
                          !.conn = "open",
                          !.value = bib_value(bib),
                          !.elapsed = now - race_start_time]]
         /\ UNCHANGED out

\* c.execute(INSERT ...): the id is the next of the AUTOINCREMENT sequence.
insert_unlocked(t) ==
    threads' = [threads EXCEPT ![t] =
        [@ EXCEPT !.pc = "commit",
                  !.row = [id |-> data[DB_FILENAME].autoinc + 1,
                           bib |-> threads[t].value,
                           finish_time |-> threads[t].elapsed,
                           race_date |-> DateOf(race_start_time)]]]

insert(t) ==
    /\ Uncommitted = {}
    /\ threads' = [threads EXCEPT ![t] =
          [@ EXCEPT !.pc = "commit",
                    !.row = [id |-> data[DB_FILENAME].autoinc + 1,
                             bib |-> threads[t].value,
                             finish_time |-> threads[t].elapsed,
                             race_date |-> DateOf(race_start_time)]]]

\* conn.commit()
commit(t) ==
    /\ data' = [data EXCEPT ![DB_FILENAME] =
                  [@ EXCEPT !.results = Append(@, threads[t].row),
                            !.autoinc = threads[t].row.id]]
    /\ threads' = [threads EXCEPT ![t].pc = "sound"]

\* c.execute(SELECT ...) and c.fetchall() of a report
select_dirty(t) ==
    LET pending == IF Uncommitted = {} THEN <<>>
                   ELSE <<threads[CHOOSE w \in Uncommitted : TRUE].row>>
    IN  threads' = [threads EXCEPT ![t] =
            [@ EXCEPT !.pc = "print",
                      !.rows = OrderByFinishTime(LeftJoin(data[DB_FILENAME].runners,
                                   data[DB_FILENAME].results \o pending))]]

select(t) ==
    threads' = [threads EXCEPT ![t] =
        [@ EXCEPT !.pc = "print",
                  !.rows = OrderByFinishTime(LeftJoin(data[DB_FILENAME].runners,
                                                      data[DB_FILENAME].results))]]

RecordEnter ==
    \E t \in Writers, bib \in ThreadBibs :
        /\ threads[t].pc = "idle"
        /\ Len(data[DB_FILENAME].results)
             + Cardinality({w \in Writers : threads[w].pc \in {"insert", "commit"}})
             < MaxResults
        /\ call' = [op |-> "record_result", arg |-> bib]
        /\ record_enter(t, bib)
        /\ UNCHANGED <<DB_FILENAME, data, clock, now, inLive, calls, reportVars,
                       csv_files, gtk, rfid>>

RecordInsert ==
    \E t \in Writers :
        /\ threads[t].pc = "insert"
        /\ insert(t)
        /\ UNCHANGED <<DB_FILENAME, data, clock, now, inLive, call, out, calls,
                       reportVars, csv_files, gtk, rfid>>

RecordCommit ==
    \E t \in Writers :
        /\ threads[t].pc = "commit"
        /\ commit(t)
        /\ UNCHANGED <<DB_FILENAME, clock, now, inLive, call, out, calls,
                       reportVars, csv_files, gtk, rfid>>

\* conn.close(), the result line and the beep
RecordSound ==
    \E t \in Writers :
        /\ threads[t].pc = "sound"
        /\ threads' = [threads EXCEPT ![t] = [@ EXCEPT !.pc = "idle", !.conn = "closed"]]
        /\ out' \in {"Result", "SoundFailed"}
        /\ UNCHANGED <<DB_FILENAME, data, clock, now, inLive, call, calls,
                       reportVars, csv_files, gtk, rfid>>

ReportSelect ==
    /\ threads[Reporter].pc = "idle"
    /\ \E op \in {"show_individual_results", "show_team_results"} :
          call' = [op |-> op, arg |-> <<>>]
    /\ select(Reporter)
    /\ UNCHANGED <<DB_FILENAME, data, clock, now, inLive, out, calls,
                   reportVars, csv_files, gtk, rfid>>

\* the loop that prints the fetched rows
ReportPrint ==
    /\ threads[Reporter].pc = "print"
    /\ threads' = [threads EXCEPT ![Reporter].pc = "idle"]
    /\ LET rows == threads[Reporter].rows
           teams == team_places_from(rows, 1, <<>>)
       IN  IF call.op = "show_team_results"
           THEN /\ report' = [k \in 1..Len(teams) |-> TeamLine(teams[k])]
                /\ out' = "TeamResults"
           ELSE /\ report' = [i \in 1..Len(rows) |-> IndividualLine(i, rows[i])]
                /\ out' = "IndividualResults"
    /\ UNCHANGED <<DB_FILENAME, data, clock, now, inLive, call, calls,
                   tie_order, results_data, csv_files, gtk, rfid>>

\* The race is running on a database with the runners of the CSV file.
ThreadInit ==
    /\ DB_FILENAME = <<0, 1>>
    /\ data = (<<0, 1>> :> [EmptyDb EXCEPT !.runners = UpsertAll({}, CsvFiles.runners)])
    /\ race_started = TRUE
    /\ race_stopped = FALSE
    /\ race_start_time = 0
    /\ now = 0
    /\ inLive = FALSE
    /\ call = [op |-> "start_race", arg |-> <<>>]
    /\ out = "InputMode"
    /\ calls = <<>>
    /\ tie_order \in TieOrders
    /\ report = <<>>
    /\ results_data = <<>>
    /\ csv_files = CsvFiles
    /\ threads = [t \in Writers \cup {Reporter} |-> IdleThread]
    /\ gtk = <<>>
    /\ rfid = <<>>

ThreadNext ==
    \/ Tick
    \/ RecordEnter
    \/ RecordInsert
    \/ RecordCommit
    \/ RecordSound
    \/ ReportSelect
    \/ ReportPrint

ThreadSpec == ThreadInit /\ [][ThreadNext]_vars

\* ------------------------------------------------------ loading CSV files
\* load_runners_from_csv applied to every file of at most MaxCsvRows rows and
\* to an empty and a filled directory.  "07" and "7" are the same bib.
CsvRow(bib, name) ==
    [bib |-> bib, name |-> name, team |-> IF name = "Ann" THEN "A" ELSE "B", rfid |-> "t"]

CsvRows == {CsvRow(bib, name) : bib \in {<<"7">>, <<"0", "7">>, <<"8">>},
                                  name \in {"Ann", "Bob"}}

CsvRowLists == UNION {[1..n -> CsvRows] : n \in 0..MaxCsvRows}

LoadedBefore ==
    { {},
      {[bib |-> 7, name |-> "Old", team |-> "O", rfid |-> ""],
       [bib |-> 9, name |-> "Zed", team |-> "Z", rfid |-> ""]} }

LoadInit ==
    /\ \E rows \in CsvRowLists : csv_files = [runners |-> rows]
    /\ \E runners \in LoadedBefore :
          data = (<<0, 1>> :> [EmptyDb EXCEPT !.runners = runners])
    /\ DB_FILENAME = <<0, 1>>
    /\ race_started = FALSE
    /\ race_stopped = FALSE
    /\ race_start_time = None
    /\ now = 0
    /\ inLive = FALSE
    /\ call = [op |-> "none", arg |-> <<>>]
    /\ out = "none"
    /\ calls = <<>>
    /\ tie_order = "rowid"
    /\ report = <<>>
    /\ results_data = <<>>
    /\ threads = <<>>
    /\ gtk = <<>>
    /\ rfid = <<>>

LoadNext == LoadRunnersFromCsv

LoadSpec == LoadInit /\ [][LoadNext]_vars

\* ------------------------------------------------------ the RFID program
\* RaceTimerGUI of race-timer-rfid-gui.py: the Start Race and Stop Race
\* buttons and the manual entry field.  The clock of the program is
\* time.perf_counter(), read as now; elapsed times are whole ticks.
current_race == 1

\* Bibs of the runners table.
RfidRunners == {7, 101}

\* Lines typed into the manual entry field.
RfidInputs ==
    { <<>>, <<" ">>, <<"1", "0", "1">>, <<"1", "0", "2">>, <<"7">>, <<"9">>,
      <<"7", "a">> }

\* str.isdigit(), on the characters the inputs use.
str_isdigit(s) == s # <<>> /\ \A i \in 1..Len(s) : s[i] \in Digits

RfidResult(id, bib, elapsed) ==
    [id |-> id, bib |-> bib, finish_time |-> elapsed, race_number |-> current_race]

\* Bibs the reader threads put on rfid_queue.
RfidScans == {7, 101, 102}

\* Times held by the program, and scans on their way to record_time: rows of
\* results, unassigned times, bibs on rfid_queue and idle callbacks of GLib.
RfidTimes ==
    Len(rfid.results) + Len(rfid.unassigned_times)
        + Len(threads.rfid_queue) + Len(threads.idle)

on_start_race ==
    /\ rfid' = [rfid EXCEPT !.start_time = now, !.unassigned_times = <<>>]
    /\ out' = "Race started."

on_stop_race ==
    /\ rfid' = [rfid EXCEPT !.start_time = None]
    /\ out' = "Race stopped."

record_unassigned_time ==
    IF rfid.start_time = None
    THEN out' = "Race not started." /\ UNCHANGED rfid
    ELSE /\ rfid' = [rfid EXCEPT !.unassigned_times = Append(@, now - rfid.start_time)]
         /\ out' = "Unassigned time recorded"

record_time(bib) ==
    IF rfid.start_time = None
    THEN out' = "Race not started." /\ UNCHANGED rfid
    ELSE IF \E i \in 1..Len(rfid.results) :
                rfid.results[i].bib = bib /\ rfid.results[i].race_number = current_race
    THEN out' = "already has a time recorded" /\ UNCHANGED rfid
    ELSE IF bib \notin RfidRunners
    THEN out' = "not found in runners" /\ UNCHANGED rfid
    ELSE /\ rfid' = [rfid EXCEPT !.results =
                        Append(@, RfidResult(Len(@) + 1, bib, now - rfid.start_time))]
         /\ out' = "Recorded time"

assign_bib_to_latest(bib) ==
    IF rfid.unassigned_times = <<>>
    THEN out' = "No unassigned times available." /\ UNCHANGED rfid
    ELSE IF bib \notin RfidRunners
    THEN out' = "not found" /\ UNCHANGED rfid
    ELSE LET n == Len(rfid.unassigned_times)
         IN  /\ rfid' = [rfid EXCEPT
                            !.unassigned_times = SubSeq(@, 1, n - 1),
                            !.results = Append(@, RfidResult(Len(@) + 1, bib,
                                                             rfid.unassigned_times[n]))]
             /\ out' = "Assigned bib"

assign_bib_to_unassigned(bib) ==
    IF rfid.unassigned_times = <<>>
    THEN out' = "No unassigned times available." /\ UNCHANGED rfid
    ELSE IF bib \notin RfidRunners
    THEN out' = "not found" /\ UNCHANGED rfid
    ELSE /\ rfid' = [rfid EXCEPT
                        !.unassigned_times = Tail(@),
                        !.results = Append(@, RfidResult(Len(@) + 1, bib,
                                                         Head(rfid.unassigned_times)))]
         /\ out' = "Assigned bib"

on_manual_entry(widget_text) ==
    LET text == str_strip(widget_text)
    IN  IF text = <<>> THEN record_unassigned_time
        ELSE IF str_isdigit(text)
        THEN IF Len(text) = 3
             THEN record_time(int_value(text))
             ELSE assign_bib_to_unassigned(int_value(text))
        ELSE out' = "Invalid input." /\ UNCHANGED rfid

\* What the RFID program leaves alone.
rfidFrame == <<DB_FILENAME, data, clock, now, inLive, calls, reportVars,
               csv_files, threads, gtk>>

OnStartRace ==
    /\ on_start_race
    /\ call' = [op |-> "on_start_race", arg |-> <<>>]
    /\ UNCHANGED rfidFrame

OnStopRace ==
    /\ on_stop_race
    /\ call' = [op |-> "on_stop_race", arg |-> <<>>]
    /\ UNCHANGED rfidFrame

\* A time is added only while the program holds fewer than MaxResults times.
OnManualEntry ==
    \E text \in RfidInputs :
        /\ RfidTimes < MaxResults \/ rfid.start_time = None
              \/ (str_strip(text) # <<>> /\ Len(str_strip(text)) # 3)
        /\ on_manual_entry(text)
        /\ call' = [op |-> "on_manual_entry", arg |-> text]
        /\ UNCHANGED rfidFrame

\* rfid_file_watcher and TCPHandler: a line of digits is put on rfid_queue.
RfidScan ==
    \E bib \in RfidScans :
        /\ RfidTimes < MaxResults
        /\ threads' = [threads EXCEPT !.rfid_queue = Append(@, bib)]
        /\ call' = [op |-> "rfid_queue.put", arg |-> <<bib>>]
        /\ UNCHANGED <<DB_FILENAME, data, clock, now, inLive, out, calls, reportVars,
                       csv_files, gtk, rfid>>

\* rfid_queue_processor: a bib is taken from the queue and record_time is
\* handed to the GTK main loop with GLib.idle_add.
RfidQueueProcessor ==
    /\ threads.rfid_queue # <<>>
    /\ threads' = [threads EXCEPT !.rfid_queue = Tail(@),
                                  !.idle = Append(@, Head(threads.rfid_queue))]
    /\ call' = [op |-> "rfid_queue_processor", arg |-> <<Head(threads.rfid_queue)>>]
    /\ UNCHANGED <<DB_FILENAME, data, clock, now, inLive, out, calls, reportVars,
                   csv_files, gtk, rfid>>

\* The GTK main loop runs the oldest idle callback: record_time returns None,
\* so the callback runs once.
IdleRecordTime ==
    /\ threads.idle # <<>>
    /\ record_time(Head(threads.idle))
    /\ threads' = [threads EXCEPT !.idle = Tail(@)]
    /\ call' = [op |-> "record_time", arg |-> <<Head(threads.idle)>>]
    /\ UNCHANGED <<DB_FILENAME, data, clock, now, inLive, calls, reportVars,
                   csv_files, gtk>>

RfidInit ==
    /\ rfid = [start_time |-> None, unassigned_times |-> <<>>, results |-> <<>>]
    /\ threads = [rfid_queue |-> <<>>, idle |-> <<>>]
    /\ DB_FILENAME = <<>>
    /\ data = <<>>
    /\ race_started = FALSE
    /\ race_stopped = FALSE
    /\ race_start_time = None
    /\ now = 0
    /\ inLive = FALSE
    /\ call = [op |-> "none", arg |-> <<>>]
    /\ out = "none"
    /\ calls = <<>>
    /\ tie_order = "rowid"
    /\ report = <<>>
    /\ results_data = <<>>
    /\ csv_files = <<>>
    /\ gtk = <<>>

RfidNext ==
    \/ Tick
    \/ OnStartRace
    \/ OnStopRace
    \/ OnManualEntry
    \/ RfidScan
    \/ RfidQueueProcessor
    \/ IdleRecordTime

RfidSpec == RfidInit /\ [][RfidNext]_vars

\* The queue-processor thread and the GTK main loop keep running: a bib on
\* the queue is taken within a second, and a pending idle callback is run.
\* Nothing obliges the readers or the person at the buttons to act.
RfidLiveSpec ==
    /\ RfidSpec
    /\ WF_vars(RfidQueueProcessor)
    /\ WF_vars(IdleRecordTime)

\* ------------------------------------------------------ the GTK4 program
\* RaceTimingApp of gui-gtk4 v.95/gui/race_timing_gui.py: one race database
\* is created, CSV files are imported into its runners table, the race is
\* started, and finishes are typed into the modal timing window.
\* A TEXT column holds NULL or the ISO text of an instant.
NULL == <<>>

isoformat(t) == <<"T", t>>

fromisoformat(s) == s[2]

\* CSV files that can be imported: rows of bib, full_name, team.
GtkCsvFiles ==
    [ runners     |-> << [bib |-> <<"7">>, full_name |-> "Ann", team |-> "A"],
                         [bib |-> <<"8">>, full_name |-> "Bob", team |-> "B"],
                         [bib |-> <<"9">>, full_name |-> "", team |-> "B"] >>,
      placeholder |-> << [bib |-> <<"0">>, full_name |-> "Unknown", team |-> "None"] >> ]

\* INSERT OR REPLACE INTO runners (bib, full_name, team, rfid): the columns
\* not named (start_time, finish_time) are NULL in the new row.
GtkRunner(row) ==
    [bib |-> int_value(row.bib), full_name |-> row.full_name, team |-> row.team,
     start_time |-> NULL, finish_time |-> NULL]

RECURSIVE InsertOrReplaceAll(_, _)
InsertOrReplaceAll(runners, rows) ==
    IF rows = <<>> THEN runners
    ELSE LET row == Head(rows)
             kept == IF row.bib # <<>> /\ row.full_name # "" /\ row.team # ""
                     THEN {r \in runners : r.bib # int_value(row.bib)} \cup {GtkRunner(row)}
                     ELSE runners
         IN  InsertOrReplaceAll(kept, Tail(rows))

\* UPDATE runners SET finish_time = ? WHERE bib = ?
UpdateFinishTime(runners, finish_time, bib) ==
    {IF r.bib = bib THEN [r EXCEPT !.finish_time = finish_time] ELSE r : r \in runners}

elapsed_seconds(start, end) == fromisoformat(end) - fromisoformat(start)

create_new_database ==
    /\ gtk' = [gtk EXCEPT !.conn = TRUE, !.runners = {}]
    /\ out' = "Database created"

process_csv_file(file_path) ==
    /\ gtk' = [gtk EXCEPT !.runners = InsertOrReplaceAll(@, GtkCsvFiles[file_path])]
    /\ out' = "CSV Import"

gtk_start_race ==
    IF ~gtk.conn
    THEN out' = "No database loaded." /\ UNCHANGED gtk
    ELSE /\ gtk' = [gtk EXCEPT
                       !.runners = {[r EXCEPT !.start_time = isoformat(now)] : r \in @},
                       !.Race_Actual_Start_Time = isoformat(now),
                       !.timing_window = TRUE,
                       !.start_datetime = now,
                       !.finish_count = 0]
         /\ out' = "Race IN PROGRESS"

on_bib_entry_activate(entry_text) ==
    LET bib_text == str_strip(entry_text)
        finish_time == isoformat(now)
        bib_number == IF bib_text = <<>> THEN 0
                      ELSE IF int_ok(bib_text) THEN int_value(bib_text) ELSE 0
        runner_data == {r \in gtk.runners : r.bib = bib_number}
    IN  IF str_lower(bib_text) = ExitWord
        THEN /\ gtk' = [gtk EXCEPT !.Race_End_Time = isoformat(now),
                                   !.timing_window = FALSE]
             /\ out' = "Timing window closed"
        ELSE IF runner_data # {} \/ bib_number = 0
        THEN /\ gtk' = [gtk EXCEPT
                           !.finish_count = @ + 1,
                           !.runners = UpdateFinishTime(@, finish_time, bib_number)]
             /\ out' = IF runner_data # {} THEN "Finish shown" ELSE "UNKNOWN - FIX LATER"
        ELSE /\ gtk' = [gtk EXCEPT
                           !.finish_count = @ + 1,
                           !.runners = UpdateFinishTime(@, finish_time, 0)]
             /\ out' = "NOT FOUND - Recorded as Bib 0"

on_window_close ==
    /\ gtk' = [gtk EXCEPT !.Race_End_Time = isoformat(now), !.timing_window = FALSE]
    /\ out' = "Timing window closed"

\* What the GTK4 program leaves alone.
gtkFrame == <<DB_FILENAME, data, clock, now, inLive, calls, reportVars,
              csv_files, threads, rfid>>

\* The buttons of the main window cannot be clicked while the modal timing
\* window is open.  One database is created.
CreateNewDatabase ==
    /\ ~gtk.timing_window /\ ~gtk.conn
    /\ create_new_database
    /\ call' = [op |-> "create_new_database", arg |-> <<>>]
    /\ UNCHANGED gtkFrame

\* Load CSV is enabled once a database is loaded.
ProcessCsvFile ==
    \E file_path \in DOMAIN GtkCsvFiles :
        /\ ~gtk.timing_window /\ gtk.conn
        /\ process_csv_file(file_path)
        /\ call' = [op |-> "process_csv_file", arg |-> <<file_path>>]
        /\ UNCHANGED gtkFrame

\* Start the Race is enabled when the database has runners.
GtkStartRace ==
    /\ ~gtk.timing_window /\ gtk.conn /\ gtk.runners # {}
    /\ gtk_start_race
    /\ call' = [op |-> "start_race", arg |-> <<>>]
    /\ UNCHANGED gtkFrame

\* At most MaxResults finishes are typed into one timing window.
OnBibEntryActivate ==
    \E entry_text \in RawInputs :
        /\ gtk.timing_window
        /\ gtk.finish_count < MaxResults \/ str_lower(str_strip(entry_text)) = ExitWord
        /\ on_bib_entry_activate(entry_text)
        /\ call' = [op |-> "on_bib_entry_activate", arg |-> entry_text]
        /\ UNCHANGED gtkFrame

OnWindowClose ==
    /\ gtk.timing_window
    /\ on_window_close
    /\ call' = [op |-> "on_window_close", arg |-> <<>>]
    /\ UNCHANGED gtkFrame

GtkInit ==
    /\ gtk = [conn |-> FALSE, runners |-> {}, timing_window |-> FALSE,
              start_datetime |-> None, finish_count |-> 0,
              Race_Actual_Start_Time |-> NULL, Race_End_Time |-> NULL]
    /\ DB_FILENAME = <<>>
    /\ data = <<>>
    /\ race_started = FALSE
    /\ race_stopped = FALSE
    /\ race_start_time = None
    /\ now = 0
    /\ inLive = FALSE
    /\ call = [op |-> "none", arg |-> <<>>]
    /\ out = "none"
    /\ calls = <<>>
    /\ tie_order = "rowid"
    /\ report = <<>>
    /\ results_data = <<>>
    /\ csv_files = <<>>
    /\ threads = <<>>
    /\ rfid = <<>>

GtkNext ==
    \/ Tick
    \/ CreateNewDatabase
    \/ ProcessCsvFile
    \/ GtkStartRace
    \/ OnBibEntryActivate
    \/ OnWindowClose

GtkSpec == GtkInit /\ [][GtkNext]_vars

\* ------------------------------------------------------ the web pages
\* individual_results and team_results of console/web/app.py, applied to the
\* database of a race that the console has written: two teams, and results of
\* known and unknown bibs.
WebRunners ==
    { [bib |-> 5, name |-> "Cat", team |-> "A", rfid |-> ""],
      [bib |-> 7, name |-> "Bob", team |-> "B", rfid |-> ""] }

WebDb(bibs) == [StoredDb(bibs) EXCEPT !.runners = WebRunners]

WebBibLists == UNION {[1..n -> {0, 5, 7}] : n \in 0..MaxRows}

\* FROM results r JOIN runners ru ON r.bib = ru.bib ORDER BY r.finish_time ASC
web_fetchall ==
    OrderByFinishTime(InnerJoin(data[DB_FILENAME].runners, data[DB_FILENAME].results))

individual_results ==
    LET runners == web_fetchall
    IN  /\ report' = runners
        /\ out' = "individual_results.html"

\* team_scores: the teams in the order of their first row, each with its rows.
RECURSIVE team_scores_from(_, _)
team_scores_from(results, team_scores) ==
    IF results = <<>> THEN team_scores
    ELSE LET row == Head(results)
             team == COALESCE(row.runners, "team")
         IN  team_scores_from(Tail(results), AppendAt(team_scores, team, row))

WebTotal(entry) ==
    LET runners == entry.value
        n == Min(Len(runners), 5)
    IN  [team |-> entry.key, score |-> (n * (n + 1)) \div 2, members |-> runners]

\* list.sort(key=score) is stable: an entry goes after the entries that do not
\* score more.
RECURSIVE sort_by_score(_)
sort_by_score(team_totals) ==
    IF team_totals = <<>> THEN <<>>
    ELSE LET sorted == sort_by_score(SubSeq(team_totals, 1, Len(team_totals) - 1))
             last == team_totals[Len(team_totals)]
             k == Cardinality({j \in 1..Len(sorted) : sorted[j].score <= last.score})
         IN  SubSeq(sorted, 1, k) \o <<last>> \o SubSeq(sorted, k + 1, Len(sorted))

team_results ==
    LET team_scores == team_scores_from(web_fetchall, <<>>)
        team_totals == [i \in 1..Len(team_scores) |-> WebTotal(team_scores[i])]
    IN  /\ report' = sort_by_score(team_totals)
        /\ out' = "team_results.html"

webFrame == <<DB_FILENAME, data, clock, now, inLive, calls, tie_order,
              results_data, csv_files, programVars>>

IndividualResults ==
    /\ individual_results
    /\ call' = [op |-> "individual_results", arg |-> DB_FILENAME]
    /\ UNCHANGED webFrame

TeamResults ==
    /\ team_results
    /\ call' = [op |-> "team_results", arg |-> DB_FILENAME]
    /\ UNCHANGED webFrame

WebInit ==
    /\ \E bibs \in WebBibLists : data = (<<0, 1>> :> WebDb(bibs))
    /\ DB_FILENAME = <<0, 1>>
    /\ tie_order \in TieOrders
    /\ race_started = FALSE
    /\ race_stopped = FALSE
    /\ race_start_time = None
    /\ now = 0
    /\ inLive = FALSE
    /\ call = [op |-> "none", arg |-> <<>>]
    /\ out = "none"
    /\ calls = <<>>
    /\ report = <<>>
    /\ results_data = <<>>
    /\ csv_files = <<>>
    /\ threads = <<>>
    /\ gtk = <<>>
    /\ rfid = <<>>

WebNext ==
    \/ IndividualResults
    \/ TeamResults

WebSpec == WebInit /\ [][WebNext]_vars

\* ------------------------------------------------------- group_by_age
\* group_by_age of race_timing_gui_tests.py applied to every list of at most
\* MaxAgeRows results whose ages are the ends of the groups, 0 or 201.
age_groups ==
    << <<1, 15>>, <<16, 20>>, <<21, 25>>, <<26, 30>>, <<31, 35>>, <<36, 40>>,
       <<41, 45>>, <<46, 50>>, <<51, 55>>, <<56, 60>>, <<61, 65>>, <<66, 70>>,
       <<71, 200>> >>

\* f"{low}-{high}" if high < 200 else f"{low}+"
group_name(low, high) == IF high < 200 THEN <<low, "-", high>> ELSE <<low, "+">>

Ages == {0, 201} \cup {age_groups[g][1] : g \in 1..Len(age_groups)}
                 \cup {age_groups[g][2] : g \in 1..Len(age_groups)}

\* A row of results_data: (age, bib, name, finish_time, place).
AgeRow(age, place) ==
    [age |-> age, bib |-> 100 + place, name |-> "Runner", finish_time |-> place,
     place |-> place]

in_group_open_top(age, low, high) == low <= age /\ age < high

\* low <= age <= high
in_group(age, low, high) == low <= age /\ age <= high

\* results_by_group[group_name] = [] for every group, in the order of age_groups.
RECURSIVE empty_groups(_)
empty_groups(groups) ==
    IF groups = <<>> THEN <<>>
    ELSE <<[key |-> group_name(Head(groups)[1], Head(groups)[2]), value |-> <<>>]>>
            \o empty_groups(Tail(groups))

\* The inner loop: the row goes to the first group that holds its age (break).
RECURSIVE place_in_group(_, _, _)
place_in_group(results_by_group, row, groups) ==
    IF groups = <<>> THEN results_by_group
    ELSE LET low == Head(groups)[1]
             high == Head(groups)[2]
         IN  IF in_group(row.age, low, high)
             THEN AppendAt(results_by_group, group_name(low, high),
                           [place |-> row.place, bib |-> row.bib, name |-> row.name,
                            finish_time |-> row.finish_time])
             ELSE place_in_group(results_by_group, row, Tail(groups))

RECURSIVE group_rows(_, _)
group_rows(results_by_group, rows) ==
    IF rows = <<>> THEN results_by_group
    ELSE group_rows(place_in_group(results_by_group, Head(rows), age_groups), Tail(rows))

group_by_age(rows) == group_rows(empty_groups(age_groups), rows)

AgeInit ==
    /\ \E n \in 0..MaxAgeRows : \E ages \in [1..n -> Ages] :
          results_data = [i \in 1..n |-> AgeRow(ages[i], i)]
    /\ DB_FILENAME = <<>>
    /\ data = <<>>
    /\ race_started = FALSE
    /\ race_stopped = FALSE
    /\ race_start_time = None
    /\ now = 0
    /\ inLive = FALSE
    /\ call = [op |-> "none", arg |-> <<>>]
    /\ out = "none"
    /\ calls = <<>>
    /\ tie_order = "rowid"
    /\ report = <<>>
    /\ csv_files = <<>>
    /\ threads = <<>>
    /\ gtk = <<>>
    /\ rfid = <<>>

GroupByAge ==
    /\ call' = [op |-> "group_by_age", arg |-> <<>>]
    /\ report' = group_by_age(results_data)
    /\ out' = "group_by_age"
    /\ UNCHANGED <<DB_FILENAME, data, clock, now, inLive, calls, tie_order, results_data>>
    /\ UNCHANGED <<csv_files, programVars>>

AgeNext == GroupByAge

AgeSpec == AgeInit /\ [][AgeNext]_vars

\* ------------------------------------------------------------ main_menu
\* The console as the program runs it: main_menu is the only caller.  It
\* waits at input("Select an option: "), runs the function of the choice and
\* waits again; choice 8 ends the loop, and an exception raised by input()
\* (EOFError, KeyboardInterrupt) is caught nowhere and ends the program.
main_menu_waiting == threads.main_menu = "input" /\ ~inLive

\* Choices 1 to 6: the function of the choice runs and main_menu waits again
\* (choice 4 waits again when start_race returns).
MenuChoice ==
    /\ main_menu_waiting
    /\ \/ InitDbNew
       \/ LoadExistingDb
       \/ LoadRunnersFromCsv
       \/ StartRace
       \/ ShowIndividualResults
       \/ ShowTeamResults

\* Choice 7 (show_all_runners) and an invalid choice print and change nothing.
MenuPrints ==
    /\ main_menu_waiting
    /\ \E choice \in {"7", "x"} :
          /\ call' = [op |-> "main_menu", arg |-> <<choice>>]
          /\ out' = IF choice = "7" THEN "AllRunners" ELSE "Invalid choice."
    /\ UNCHANGED <<DB_FILENAME, data, clock, now, inLive, calls>>
    /\ UNCHANGED otherVars

\* Choice 8, or input() raising at the menu prompt.
MenuEnds ==
    /\ main_menu_waiting
    /\ threads' = [threads EXCEPT !.main_menu = "ended"]
    /\ call' = [op |-> "main_menu", arg |-> <<"8">>]
    /\ out' = "Goodbye!"
    /\ UNCHANGED <<DB_FILENAME, data, clock, now, inLive, calls>>
    /\ UNCHANGED <<reportVars, csv_files, gtk, rfid>>

MenuLiveRaceInput == threads.main_menu = "input" /\ LiveRaceInput

\* input() raises inside live_race_input: the exception leaves the loop,
\* start_race and main_menu.
MenuLiveInputRaises ==
    /\ threads.main_menu = "input"
    /\ inLive
    /\ inLive' = FALSE
    /\ threads' = [threads EXCEPT !.main_menu = "ended"]
    /\ call' = [op |-> "input", arg |-> <<>>]
    /\ out' = "Exception"
    /\ UNCHANGED <<DB_FILENAME, data, clock, now, calls>>
    /\ UNCHANGED <<reportVars, csv_files, gtk, rfid>>

MenuInit ==
    /\ threads = [main_menu |-> "input"]
    /\ DB_FILENAME = <<>>
    /\ data = <<>>
    /\ race_started = FALSE
    /\ race_stopped = FALSE
    /\ race_start_time = None
    /\ now = 0
    /\ inLive = FALSE
    /\ call = [op |-> "none", arg |-> <<>>]
    /\ out = "none"
    /\ calls = <<>>
    /\ tie_order = "rowid"
    /\ report = <<>>
    /\ results_data = <<>>
    /\ csv_files = CsvFiles
    /\ gtk = <<>>
    /\ rfid = <<>>

MenuNext ==
    \/ Tick
    \/ MenuChoice
    \/ MenuPrints
    \/ MenuEnds
    \/ MenuLiveRaceInput
    \/ MenuLiveInputRaises

MenuSpec == MenuInit /\ [][MenuNext]_vars

\* ------------------------------------------------- many databases a day
\* The program is started with the race databases that earlier runs of the
\* same day have left under data/ (sequence numbers 1..n), and new databases
\* are created.
DayDbs(n) == [f \in {<<0, seq>> : seq \in 1..n} |-> EmptyDb]

InitDbSameDay ==
    /\ ~inLive
    /\ Cardinality(DOMAIN data) <= MaxDayDbs
    /\ call' = [op |-> "init_db", arg |-> <<>>]
    /\ init_db(TRUE)
    /\ UNCHANGED <<clock, now, inLive>>
    /\ UNCHANGED otherVars

DayInit ==
    /\ \E n \in 0..MaxDayDbs :
          /\ data = DayDbs(n)
          /\ calls = [f \in DOMAIN DayDbs(n) |-> 0]
    /\ DB_FILENAME = <<>>
    /\ race_started = FALSE
    /\ race_stopped = FALSE
    /\ race_start_time = None
    /\ now = 0
    /\ inLive = FALSE
    /\ call = [op |-> "none", arg |-> <<>>]
    /\ out = "none"
    /\ tie_order = "rowid"
    /\ report = <<>>
    /\ results_data = <<>>
    /\ csv_files = CsvFiles
    /\ threads = <<>>
    /\ gtk = <<>>
    /\ rfid = <<>>

DayNext ==
    \/ Tick
    \/ InitDbSameDay

DaySpec == DayInit /\ [][DayNext]_vars

\* ------------------------------------------------------------------ claims
\* The results table of the database in use.
Results == IF DB_FILENAME \in DOMAIN data THEN data[DB_FILENAME].results ELSE <<>>

Directory == IF DB_FILENAME \in DOMAIN data THEN data[DB_FILENAME].runners ELSE {}

\* Every step but Tick is a call, and leaves its function and argument in call.
IsCall(op) == now' = now /\ call'.op = op

\* The step is a call of record_result with argument bib, made directly or by
\* live_race_input with the line it read.
Records(bib) ==
    \/ IsCall("record_result") /\ call'.arg = bib
    \/ /\ IsCall("live_race_input")
       /\ str_strip(call'.arg) = bib
       /\ str_lower(bib) # ExitWord

\* The step appends one row with this bib to the results in use and changes
\* nothing else in any database.
Appends(value) ==
    /\ DB_FILENAME \in DOMAIN data
    /\ DB_FILENAME' = DB_FILENAME
    /\ \A f \in DOMAIN data \ {DB_FILENAME} : data'[f] = data[f]
    /\ DOMAIN data' = DOMAIN data
    /\ data'[DB_FILENAME].runners = data[DB_FILENAME].runners
    /\ Len(data'[DB_FILENAME].results) = Len(Results) + 1
    /\ SubSeq(data'[DB_FILENAME].results, 1, Len(Results)) = Results
    /\ data'[DB_FILENAME].results[Len(Results) + 1].bib = value

\* C1: record_result called while the clock is not running (never started, or
\* stopped) prints the race-not-active warning and leaves every table as it was.
C1_NotActiveWritesNothing ==
    [][\A bib \in BibArgs :
          (Records(bib) /\ ~Running)
              => (out' = "RaceNotActive" /\ data' = data /\ UNCHANGED clock)]_vars

C1_Witness ==
    /\ call = [op |-> "record_result", arg |-> <<"7">>]
    /\ out = "RaceNotActive"
    /\ race_stopped /\ ~race_started
    /\ Len(Results) = 1

\* C2 as stated: a record call whose argument is not blank and is no numeral is
\* rejected as an invalid bib in every clock state, and writes nothing.
C2_Original ==
    [][\A bib \in BibArgs :
          (Records(bib) /\ bib # <<>> /\ ~int_ok(bib))
              => (out' = "InvalidBib" /\ data' = data)]_vars

\* C2 amended: such a call writes nothing in any clock state; it is rejected as
\* an invalid bib while the clock is running, and as race-not-active otherwise
\* (the guard on the clock comes first).
C2_InvalidWritesNothing ==
    [][\A bib \in BibArgs :
          (Records(bib) /\ bib # <<>> /\ ~int_ok(bib))
              => /\ data' = data
                 /\ out' = IF Running THEN "InvalidBib" ELSE "RaceNotActive"]_vars

C2_Witness ==
    /\ call = [op |-> "live_race_input", arg |-> <<"7", "a">>]
    /\ out = "InvalidBib"
    /\ Running
    /\ Len(Results) = 1

C4_CountAndIds ==
    \A f \in DOMAIN data :
        /\ Len(data[f].results) = calls[f]
        /\ \A i, j \in 1..Len(data[f].results) :
               i < j => data[f].results[i].id < data[f].results[j].id

C4_Witness ==
    /\ DB_FILENAME \in DOMAIN data
    /\ calls[DB_FILENAME] = 2
    /\ Len(Results) = 2
    /\ Results[1].bib = 0
    /\ Results[2].bib = 7

C6_StartWhileRunningRejected ==
    [][(IsCall("start_race") /\ Running)
          => (out' = "AlreadyRunning"
              /\ UNCHANGED <<clock, data, DB_FILENAME, inLive>>)]_vars

C6_Witness ==
    /\ call.op = "start_race"
    /\ out = "AlreadyRunning"
    /\ Running
    /\ race_start_time = 0
    /\ now = 1
    /\ Len(Results) = 1

\* C7: stop_race called while the clock is not running (never started, or
\* stopped already) is rejected and changes neither the clock nor any table; a
\* second stop after a successful one is rejected too.
C7_StopWhenNotRunningRejected ==
    [][(IsCall("stop_race") /\ ~Running)
          => (out' = "NotStarted"
              /\ UNCHANGED <<clock, data, DB_FILENAME, inLive>>)]_vars

C7_Witness ==
    /\ call.op = "stop_race"
    /\ out = "NotStarted"
    /\ race_stopped /\ ~race_started
    /\ race_start_time # None

\* C8: in every database the elapsed times of the result rows never decrease
\* in insertion order.
C8_ElapsedNonDecreasing ==
    \A f \in DOMAIN data :
        \A i, j \in 1..Len(data[f].results) :
            i < j => data[f].results[i].finish_time <= data[f].results[j].finish_time

\* C9: every stored row has an elapsed time of at least 0.
C9_ElapsedNonNegative ==
    \A f \in DOMAIN data :
        \A i \in 1..Len(data[f].results) : data[f].results[i].finish_time >= 0

C9_Witness ==
    /\ Len(Results) = 2
    /\ Results[1].finish_time = 1
    /\ Results[2].finish_time = 0
    /\ race_start_time = 1

\* C10: while the clock is running, a record call with a numeral whose value
\* is no bib of the runners table appends one row carrying that value.
C10_UnknownBibStored ==
    [][\A bib \in BibArgs :
          (/\ Records(bib)
           /\ Running
           /\ int_ok(bib)
           /\ int_value(bib) \notin {r.bib : r \in Directory})
              => Appends(int_value(bib))]_vars

C10_Witness ==
    /\ call = [op |-> "live_race_input", arg |-> <<" ", "7", " ">>]
    /\ Directory = {}
    /\ Len(Results) = 1
    /\ Results[1].bib = 7

\* ---- reports
ShownIndividual == call.op = "show_individual_results" /\ DB_FILENAME # <<>>

ShownTeams == call.op = "show_team_results" /\ DB_FILENAME # <<>>

\* The results by elapsed time, those of equal elapsed time by id.
ByTimeThenId ==
    [p \in 1..Len(Results) |->
        Results[CHOOSE i \in 1..Len(Results) :
            Cardinality({j \in 1..Len(Results) :
                \/ Results[j].finish_time < Results[i].finish_time
                \/ /\ Results[j].finish_time = Results[i].finish_time
                   /\ Results[j].id < Results[i].id}) = p - 1]]

\* C11: the individual report lists the results by non-decreasing elapsed
\* time, and results of equal elapsed time in the order of their insertion.
C11_TimeThenInsertionOrder ==
    ShownIndividual =>
        /\ Len(report) = Len(Results)
        /\ \A p \in 1..Len(report) :
              /\ report[p].time = ByTimeThenId[p].finish_time
              /\ report[p].bib = ByTimeThenId[p].bib

Known(bib) == \E u \in Directory : u.bib = bib

\* C12: the individual report has one line per stored result, numbered 1..n
\* in the order printed, and a result whose bib has no directory entry is
\* printed with name and team UNKNOWN.
C12_OneLinePerResult ==
    ShownIndividual =>
        /\ Len(report) = Len(Results)
        /\ \A i \in 1..Len(report) :
              /\ report[i].place = i
              /\ ~Known(report[i].bib) =>
                    report[i].name = "UNKNOWN" /\ report[i].team = "UNKNOWN"
              /\ Cardinality({j \in 1..Len(report) :
                     report[j].bib = report[i].bib /\ report[j].time = report[i].time})
                  = Cardinality({j \in 1..Len(Results) :
                       /\ Results[j].bib = report[i].bib
                       /\ Results[j].finish_time = report[i].time})

C12_Witness ==
    /\ ShownIndividual
    /\ \E i, j, k \in 1..Len(report) :
          /\ report[i].bib = 0 /\ report[i].team = "UNKNOWN"
          /\ report[j].bib = 8 /\ report[j].name = "UNKNOWN"
          /\ report[k].bib = 7 /\ report[k].team = "B"
          /\ j < k /\ k < i

\* The team a result counts for.
TeamOf(bib) ==
    IF Known(bib) THEN (CHOOSE u \in Directory : u.bib = bib).team ELSE "UNKNOWN"

Finishers(team) == {j \in 1..Len(Results) : TeamOf(Results[j].bib) = team}

\* C13: the team report contains no team with fewer than 5 finishers.
C13_NoTeamUnderFive ==
    ShownTeams => \A k \in 1..Len(report) : Cardinality(Finishers(report[k].team)) >= 5

\* The overall places of the finishers of a team: a result's place is its
\* position among the rows the query returns.
PlacesOf(team) ==
    {p \in 1..Len(fetchall) : COALESCE(fetchall[p].runners, "team") = team}

\* The n-th lowest of a set of places.
Nth(S, n) == CHOOSE x \in S : Cardinality({y \in S : y < x}) = n - 1

\* C14: for every team with five finishers or more, the scorers are its 5
\* lowest overall places, the total is the sum of those 5, and the displacers
\* are its 6th and 7th places when it has them, at most 2, outside the total.
C14_ScorersAndDisplacers ==
    ShownTeams =>
        \A k \in 1..Len(report) :
            LET S == PlacesOf(report[k].team)
            IN  Cardinality(S) >= 5 =>
                  /\ report[k].scorers = [i \in 1..5 |-> Nth(S, i)]
                  /\ report[k].total =
                        Nth(S, 1) + Nth(S, 2) + Nth(S, 3) + Nth(S, 4) + Nth(S, 5)
                  /\ Len(report[k].displacers) = Min(2, Cardinality(S) - 5)
                  /\ \A i \in 1..Len(report[k].displacers) :
                        report[k].displacers[i] = Nth(S, 5 + i)

C14_Witness ==
    /\ ShownTeams
    /\ \E k \in 1..Len(report) :
          /\ Cardinality(PlacesOf(report[k].team)) = 7
          /\ Len(report[k].displacers) = 2
          /\ report[k].total > 15

\* The 6th and 7th places of one team decide before those of another.
DisplacersInOrder(a, b) ==
    (Len(a.displacers) > 0 /\ Len(b.displacers) > 0) =>
        \/ a.displacers[1] < b.displacers[1]
        \/ /\ a.displacers[1] = b.displacers[1]
           /\ (Len(a.displacers) > 1 /\ Len(b.displacers) > 1) =>
                 a.displacers[2] <= b.displacers[2]

\* C15: the team report lists the teams by ascending total, equal totals by
\* the place of the 6th finisher, then of the 7th.
C15_TeamsAscending ==
    ShownTeams =>
        \A k \in 1..(Len(report) - 1) :
            \/ report[k].total < report[k + 1].total
            \/ /\ report[k].total = report[k + 1].total
               /\ DisplacersInOrder(report[k], report[k + 1])

\* ---- calculate_team_scores
Scored == call.op = "calculate_team_scores"

\* The places of the runners of a team in results_data.
InputPlaces(team) ==
    {results_data[i].place : i \in {j \in 1..Len(results_data) : results_data[j].team = team}}

RunnersOf(team) == Cardinality({j \in 1..Len(results_data) : results_data[j].team = team})

\* C16: calculate_team_scores returns an entry for a team exactly when the
\* team has 5 runners or more in its input, and [] for the empty input.
C16_EntryIffFiveRunners ==
    Scored =>
        /\ \A team \in ScoreTeams :
              Cardinality({k \in 1..Len(report) : report[k].team = team})
                = IF RunnersOf(team) >= 5 THEN 1 ELSE 0
        /\ \A k \in 1..Len(report) : report[k].team \in ScoreTeams
        /\ results_data = <<>> => report = <<>>

C16_Witness ==
    /\ Scored
    /\ RunnersOf("A") = 5
    /\ RunnersOf("B") = 4
    /\ Len(report) = 1
    /\ report[1].team = "A"

\* Team a has a finisher at position n where team b has a later one or none;
\* with the same finisher at n, the next position decides up to the 7th.
RECURSIVE TieBroken(_, _, _)
TieBroken(a, b, n) ==
    IF n > 7 THEN TRUE
    ELSE IF Cardinality(InputPlaces(a)) < n THEN Cardinality(InputPlaces(b)) < n
    ELSE IF Cardinality(InputPlaces(b)) < n THEN TRUE
    ELSE \/ Nth(InputPlaces(a), n) < Nth(InputPlaces(b), n)
         \/ /\ Nth(InputPlaces(a), n) = Nth(InputPlaces(b), n)
            /\ TieBroken(a, b, n + 1)

InputTotal(team) ==
    LET S == InputPlaces(team)
    IN  Nth(S, 1) + Nth(S, 2) + Nth(S, 3) + Nth(S, 4) + Nth(S, 5)

\* C17: calculate_team_scores returns the teams by ascending total; teams of
\* equal total by the place of their 6th finisher, then of their 7th, a team
\* without a finisher at that position after a team that has one.
C17_SortedWithTieBreaks ==
    Scored =>
        \A k \in 1..(Len(report) - 1) :
            LET a == report[k].team
                b == report[k + 1].team
            IN  /\ report[k].score = InputTotal(a)
                /\ report[k + 1].score = InputTotal(b)
                /\ \/ InputTotal(a) < InputTotal(b)
                   \/ InputTotal(a) = InputTotal(b) /\ TieBroken(a, b, 6)

C17_Witness ==
    /\ Scored
    /\ Len(report) = 2
    /\ report[1].score = report[2].score
    /\ results_data[1].team = report[2].team
    /\ Len(report[1].displacers) = 2
    /\ Len(report[2].displacers) = 2
    /\ report[1].tiebreak1 = report[2].tiebreak1
    /\ report[1].tiebreak2 < report[2].tiebreak2

RecordedBefore(bib) ==
    \/ call.op = "record_result" /\ call.arg = bib
    \/ call.op = "live_race_input" /\ str_strip(call.arg) = bib

\* C19: a second record with the same input while the race is running (the
\* same bib, or blank again) adds a second result with an id of its own and
\* leaves the first as it was.
C19_SameInputTwice ==
    [][\A bib \in BibArgs :
          (/\ Records(bib)
           /\ RecordedBefore(bib)
           /\ Running
           /\ DB_FILENAME \in DOMAIN data
           /\ bib = <<>> \/ int_ok(bib))
          => LET value == IF bib = <<>> THEN 0 ELSE int_value(bib)
             IN  /\ Appends(value)
                 /\ Len(Results) >= 1
                 /\ Results[Len(Results)].bib = value
                 /\ \A i \in 1..Len(Results) :
                       data'[DB_FILENAME].results[Len(Results) + 1].id # Results[i].id]_vars

C19_Witness ==
    /\ Len(Results) = 2
    /\ Results[1].bib = Results[2].bib
    /\ Results[1].id # Results[2].id
    /\ RecordedBefore(<<"7">>) \/ RecordedBefore(<<>>)

\* C20: in team scoring every stored result takes one overall place, the
\* results of bib 0 and of bibs that are not in the directory too; these are
\* all under the one team UNKNOWN, and no runner of another team is given a
\* place of theirs.
C20_EveryResultPlaced ==
    ShownTeams =>
        LET teams == team_places
            rows == fetchall
        IN  /\ Len(report) = Len(teams)
            /\ \A k \in 1..Len(report) : report[k] = TeamLine(teams[k])
            /\ \A p \in 1..Len(Results) :
                  Cardinality({<<k, i>> \in (1..Len(teams)) \X (1..Len(Results)) :
                      i <= Len(teams[k].value) /\ teams[k].value[i] = p}) = 1
            /\ \A k \in 1..Len(teams) :
                  /\ Len(teams[k].value) = Cardinality(Finishers(teams[k].key))
                  /\ \A i \in 1..Len(teams[k].value) :
                        TeamOf(rows[teams[k].value[i]].result.bib) = teams[k].key
                  /\ \A j \in 1..Len(teams) : teams[j].key = teams[k].key => j = k
            /\ \A j \in 1..Len(Results) :
                  ~Known(Results[j].bib) =>
                      \E k \in 1..Len(report) : report[k].team = "UNKNOWN"

C20_Witness ==
    /\ ShownTeams
    /\ Len(report) = 2
    /\ report[1].team = "B"
    /\ report[2].team = "UNKNOWN"
    /\ report[2].scorers = <<2, 3>>
    /\ \E i, j \in 1..Len(Results) : Results[i].bib = 0 /\ Results[j].bib = 8

\* ---- concurrent callers
\* C21: when two input sources record at the same time while the race is
\* running, both results end up in the store, each once, with ids of their
\* own that rise strictly in the order of the commits.
C21_ConcurrentAppends ==
    /\ \A i, j \in 1..Len(Results) : i < j => Results[i].id < Results[j].id
    /\ \A t \in Writers :
          threads[t].pc = "sound" =>
              Cardinality({i \in 1..Len(Results) : Results[i] = threads[t].row}) = 1
    /\ \A t, u \in Writers :
          (t # u /\ threads[t].pc \in {"commit", "sound"}
                 /\ threads[u].pc \in {"commit", "sound"}) =>
              threads[t].row.id # threads[u].row.id

C21_Witness ==
    /\ \A t \in Writers : threads[t].pc = "sound"
    /\ Len(Results) = 2
    /\ Results[1].bib = Results[2].bib

\* C22: a report made while results are being recorded reflects exactly the
\* results committed up to one moment: the rows it fetched are the first n
\* rows of the store, for some n, and it prints those.
C22_ConsistentSnapshot ==
    LET rows == threads[Reporter].rows
    IN  /\ \E n \in 0..Len(Results) :
              /\ Len(rows) = n
              /\ {rows[i].result : i \in 1..Len(rows)} = {Results[i] : i \in 1..n}
        /\ (threads[Reporter].pc = "idle" /\ call.op = "show_individual_results") =>
              /\ Len(report) = Len(rows)
              /\ \A i \in 1..Len(rows) : report[i] = IndividualLine(i, rows[i])

C22_Witness ==
    /\ threads[Reporter].pc = "idle"
    /\ call.op = "show_individual_results"
    /\ Len(report) = 1
    /\ Len(Results) = 2

\* C23: when the finish sound cannot be played, the result is recorded all the
\* same: the row is in the store, and the caller goes on (the input loop asks
\* for the next line).
C23_SoundFailureKeepsResult ==
    [][\A bib \in BibArgs :
          (Records(bib) /\ out' = "SoundFailed") =>
              /\ Appends(IF bib = <<>> THEN 0 ELSE int_value(bib))
              /\ UNCHANGED clock
              /\ IsCall("live_race_input") => inLive']_vars

C23_Witness ==
    /\ out = "SoundFailed"
    /\ call.op = "live_race_input"
    /\ inLive
    /\ Len(Results) = 2
    /\ Results[2].bib = 7

\* The bibs of the rows of the loaded file.
LoadedBibs == {int_value(csv_files.runners[i].bib) : i \in 1..Len(csv_files.runners)}

\* The last row of the file for a bib, as a directory entry.
LastRowOf(b) ==
    LET rows == csv_files.runners
        i == CHOOSE k \in 1..Len(rows) :
                /\ int_value(rows[k].bib) = b
                /\ \A j \in (k + 1)..Len(rows) : int_value(rows[j].bib) # b
    IN  [bib |-> b, name |-> rows[i].name, team |-> rows[i].team, rfid |-> rows[i].rfid]

\* C24: after a load the directory has one entry for every bib of the file,
\* equal to the last row of that bib; the entries of other bibs are as they
\* were, and a second load of the same file changes nothing.
C24_LoadIsUpsert ==
    [][(IsCall("load_runners_from_csv") /\ call'.arg = <<"runners">>) =>
          /\ data'[DB_FILENAME].runners =
                {u \in Directory : u.bib \notin LoadedBibs}
                  \cup {LastRowOf(b) : b \in LoadedBibs}
          /\ data'[DB_FILENAME].results = Results
          /\ call = call' => data' = data]_vars

C24_Witness ==
    /\ call = [op |-> "load_runners_from_csv", arg |-> <<"runners">>]
    /\ Len(csv_files.runners) = 3
    /\ csv_files.runners[1] = CsvRow(<<"7">>, "Ann")
    /\ csv_files.runners[3] = CsvRow(<<"0", "7">>, "Bob")
    /\ Directory = {[bib |-> 7, name |-> "Bob", team |-> "B", rfid |-> "t"],
                    [bib |-> 8, name |-> "Ann", team |-> "A", rfid |-> "t"],
                    [bib |-> 9, name |-> "Zed", team |-> "Z", rfid |-> ""]}

QuitWord == <<"q", "u", "i", "t">>

\* C25: in the live input mode the word quit ends the mode: the race is
\* stopped, control is back at the menu, and nothing is recorded for the line.
C25_QuitEndsLiveMode ==
    [][\A raw \in RawInputs :
          (/\ IsCall("live_race_input")
           /\ call'.arg = raw
           /\ str_lower(str_strip(raw)) = QuitWord)
          => /\ ~inLive'
             /\ race_stopped' /\ ~race_started'
             /\ UNCHANGED data]_vars

\* C27: race_started and race_stopped are never both true.
C27_FlagsNeverBothTrue == ~(race_started /\ race_stopped)

C27_Witness ==
    /\ race_stopped /\ ~race_started
    /\ call.op = "live_race_input"
    /\ Len(Results) = 1

\* C29: in the RFID program a click on Start Race while a race is running is
\* rejected: start_time and the pending unassigned times keep their values.
C29_StartWhileRunningRejected ==
    [][(IsCall("on_start_race") /\ rfid.start_time # None) =>
          /\ rfid'.start_time = rfid.start_time
          /\ rfid'.unassigned_times = rfid.unassigned_times]_vars

\* C26: in the timing window of the GTK4 program, Enter on an empty entry
\* stores the finish time in the database under bib 0, whatever the runners
\* table holds.
C26_BlankEntryStoredUnderBibZero ==
    [][(IsCall("on_bib_entry_activate") /\ str_strip(call'.arg) = <<>>) =>
          \E r \in gtk'.runners : r.bib = 0 /\ r.finish_time = isoformat(now)]_vars

\* The runners of the GTK4 database that have a start and a finish time.
GtkFinished(runners) == {r \in runners : r.start_time # NULL /\ r.finish_time # NULL}

\* C28: in the GTK4 program, once a runner has finished, a step that does not
\* record that bib again leaves the runner's elapsed time as it was, and not
\* negative; a further click on Start the Race is such a step.
C28_ElapsedOfFinishersKept ==
    [][\A r \in GtkFinished(gtk.runners) :
          LET after == {q \in gtk'.runners : q.bib = r.bib}
          IN  \/ /\ call'.op = "on_bib_entry_activate"
                 /\ \E q \in after : q.finish_time # r.finish_time
              \/ /\ after \subseteq GtkFinished(gtk'.runners)
                 /\ after # {}
                 /\ \A q \in after :
                       /\ elapsed_seconds(q.start_time, q.finish_time)
                             = elapsed_seconds(r.start_time, r.finish_time)
                       /\ elapsed_seconds(q.start_time, q.finish_time) >= 0]_vars

\* The overall place of a row of the team_results query: its position among
\* the rows of the query.
WebPlace(rows, row) == CHOOSE k \in 1..Len(rows) : rows[k] = row

\* C30: on the team_results page the score of a team is the sum of the
\* overall places of the first 5 finishers of the team.
C30_ScoreIsSumOfPlaces ==
    out = "team_results.html" =>
        LET rows == web_fetchall
        IN  \A i \in 1..Len(report) :
                LET members == report[i].members
                    first == SubSeq(members, 1, Min(5, Len(members)))
                IN  report[i].score =
                        sum([j \in 1..Len(first) |-> WebPlace(rows, first[j])])

\* C31: the individual_results page shows one row for every row of the
\* results table, rows of bib 0 and of bibs without runner included.
C31_PageListsEveryResult ==
    out = "individual_results.html" =>
        /\ Len(report) = Len(Results)
        /\ \A i \in 1..Len(Results) :
              \E k \in 1..Len(report) : report[k].result = Results[i]

\* The groups of the answer of group_by_age that hold the row of a place.
GroupsOfPlace(place) ==
    {g \in 1..Len(report) :
        \E k \in 1..Len(report[g].value) : report[g].value[k].place = place}

\* C32: group_by_age returns the same 13 groups for every input, and a result
\* with an age in 1..200 is in the group whose range holds the age, once, and
\* in no other group.
C32_OneGroupPerAge ==
    out = "group_by_age" =>
        /\ Len(report) = 13
        /\ \A g \in 1..13 : report[g].key = group_name(age_groups[g][1], age_groups[g][2])
        /\ report[1].key = <<1, "-", 15>> /\ report[2].key = <<16, "-", 20>>
        /\ report[12].key = <<66, "-", 70>> /\ report[13].key = <<71, "+">>
        /\ \A i \in 1..Len(results_data) :
              LET row == results_data[i]
              IN  row.age \in 1..200 =>
                    /\ Cardinality(GroupsOfPlace(row.place)) = 1
                    /\ \A g \in GroupsOfPlace(row.place) :
                          /\ age_groups[g][1] <= row.age /\ row.age <= age_groups[g][2]
                          /\ Cardinality({k \in 1..Len(report[g].value) :
                                             report[g].value[k].place = row.place}) = 1
                          /\ \E k \in 1..Len(report[g].value) :
                                report[g].value[k] =
                                    [place |-> row.place, bib |-> row.bib,
                                     name |-> row.name, finish_time |-> row.finish_time]

C32_Witness ==
    /\ out = "group_by_age"
    /\ Len(results_data) = 2
    /\ results_data[1].age = 70 /\ results_data[2].age = 71
    /\ Len(report[12].value) = 1 /\ report[12].value[1].place = 1
    /\ Len(report[13].value) = 1 /\ report[13].value[1].place = 2

\* C33: whenever main_menu waits for a choice the race is not running, and a
\* report, a CSV load or a change of database is never run while it is.
C33_MenuWaitsOnlyWhenNotRunning ==
    /\ main_menu_waiting => ~race_started
    /\ call.op \in {"init_db", "load_existing_db", "load_runners_from_csv",
                    "show_individual_results", "show_team_results"}
          => ~race_started

C33_Witness ==
    /\ main_menu_waiting
    /\ race_stopped /\ ~race_started
    /\ call.op = "live_race_input"
    /\ Len(Results) = 1

\* Rows of the results table of the RFID program for a bib in the current race.
RfidRowsOf(bib) ==
    {i \in 1..Len(rfid.results) :
        rfid.results[i].bib = bib /\ rfid.results[i].race_number = current_race}

\* C34: the results table of the RFID program never holds two rows of the
\* same bib and race_number.
C34_OneRowPerBibAndRace ==
    \A bib \in RfidRunners : Cardinality(RfidRowsOf(bib)) <= 1

\* C35: the bib of a registered runner without result that is on rfid_queue
\* while the race is running eventually has exactly one row of results.
C35_ScanEventuallyRecorded ==
    \A bib \in RfidRunners :
        (/\ \E i \in 1..Len(threads.rfid_queue) : threads.rfid_queue[i] = bib
         /\ rfid.start_time # None
         /\ RfidRowsOf(bib) = {})
            ~> (Cardinality(RfidRowsOf(bib)) = 1)

\* A manual entry that goes to assign_bib_to_unassigned: digits, not three.
AssignEntry(text) == str_isdigit(str_strip(text)) /\ Len(str_strip(text)) # 3

\* C36: assign_bib_to_unassigned gives a registered bib the earliest pending
\* time and takes that time off the list; for a bib that is not registered,
\* or with no pending time, the list and the results stay as they are.
C36_EarliestPendingTimeAssigned ==
    [][(IsCall("on_manual_entry") /\ AssignEntry(call'.arg)) =>
          LET bib == int_value(str_strip(call'.arg))
              pending == rfid.unassigned_times
          IN  IF pending # <<>> /\ bib \in RfidRunners
              THEN /\ rfid'.unassigned_times = Tail(pending)
                   /\ Len(rfid'.results) = Len(rfid.results) + 1
                   /\ SubSeq(rfid'.results, 1, Len(rfid.results)) = rfid.results
                   /\ rfid'.results[Len(rfid'.results)].bib = bib
                   /\ rfid'.results[Len(rfid'.results)].finish_time = Head(pending)
              ELSE /\ rfid'.unassigned_times = pending
                   /\ rfid'.results = rfid.results]_vars

C36_Witness ==
    /\ call = [op |-> "on_manual_entry", arg |-> <<"7">>]
    /\ out = "Assigned bib"
    /\ Len(rfid.results) = 1
    /\ rfid.results[1].bib = 7 /\ rfid.results[1].finish_time = 0
    /\ rfid.unassigned_times = <<1>>

\* C37: init_db(new_db=True) selects a filename that is not in data/ yet,
\* however many race databases the day already has.
C37_NewDatabaseIsNewFile ==
    [][IsCall("init_db") => DB_FILENAME' \notin DOMAIN data]_vars

\* C38: when a call of record_result has returned, the connection it opened
\* is closed, on the path that records and on the path that rejects the bib.
C38_ConnectionClosedAtReturn ==
    \A t \in Writers : threads[t].pc = "idle" => threads[t].conn # "open"

====
